---- MODULE Spec2Model ----
(***************************************************************************)
(* A model of bernet's declarative configuration engine                    *)
(* (src/bernet/config.py): the Error Context (InitContext), the field      *)
(* descriptors (REQUIRED, OPTIONAL, EITHER, REPEAT, SUBCLASS_OF), the      *)
(* type wrapper, the metaclass that assembles __config_properties__, and   *)
(* ConfigObject construction, serialisation and equality.                  *)
(*                                                                         *)
(* Python values are records [k, n, s, xs]: k is the runtime type name     *)
(* ("object" for a ConfigObject instance, whose class name is in s), n a   *)
(* number, s a string, xs the items of a container.  A dict is an ordered  *)
(* sequence of entries, as Python dicts keep insertion order.              *)
(***************************************************************************)
EXTENDS Integers, Sequences, FiniteSets, TLC

VARIABLES classes, ctx, pc, call, ret, arg, held, out

vars == <<classes, ctx, pc, call, ret, arg, held, out>>

(***************************************************************************)
(* Bounds of the model.                                                    *)
(***************************************************************************)
\* longest list given to a REPEAT descriptor / longest ndarray
MaxLen == 2
\* number of record types defined at run time, after the module's own
MaxDefs == 2
\* most examples an epoch holds
MaxExamples == 16
\* largest batch size asked for
MaxBatch == 8

(***************************************************************************)
(* Python values.                                                          *)
(***************************************************************************)
Val(k, n, s, xs) == [k |-> k, n |-> n, s |-> s, xs |-> xs]

VNone == Val("NoneType", 0, "", <<>>)

VInt(n) == Val("int", n, "", <<>>)

\* floats are kept in halves: VFloat(3) is 1.5, VFloat(2) is 1.0
VFloat(h) == Val("float", h, "", <<>>)

VBool(b) == Val("bool", IF b THEN 1 ELSE 0, "", <<>>)

VStr(s) == Val("str", 0, s, <<>>)

VList(xs) == Val("list", 0, "", xs)

VDict(entries) == Val("dict", 0, "", entries)

VArr(xs) == Val("ndarray", 0, "", xs)

\* the InitContext object itself, as stored under "__ctx__"
VCtx == Val("InitContext", 0, "", <<>>)

VObj(cls, attrs) == Val("object", 0, cls, attrs)

Entry(key, v) == Val("entry", 0, key, <<v>>)

\* type(value).__name__ ; for an instance, the name of its class
TypeOf(v) == IF v.k = "object" THEN v.s ELSE v.k

RECURSIVE Reverse(_)
Reverse(s) == IF s = <<>> THEN <<>> ELSE Append(Reverse(Tail(s)), Head(s))

HasKey(d, key) == \E i \in 1..Len(d.xs) : d.xs[i].s = key

KeyIndex(d, key) == CHOOSE i \in 1..Len(d.xs) : d.xs[i].s = key

\* dict.get(key): None when absent
DictGet(d, key) == IF HasKey(d, key) THEN d.xs[KeyIndex(d, key)].xs[1] ELSE VNone

\* d[key] = v : an existing key keeps its place, a new one goes last
DictSet(d, key, v) ==
    IF HasKey(d, key)
    THEN [d EXCEPT !.xs[KeyIndex(d, key)] = Entry(key, v)]
    ELSE [d EXCEPT !.xs = Append(@, Entry(key, v))]

(***************************************************************************)
(* Descriptors and declared types.  d is the kind: "type" a plain Python   *)
(* type named t, "class" a ConfigObject subclass named t, "lit" a fixed    *)
(* value (lit), "property" the property object _add_property installs,     *)
(* otherwise the ConfigField subclass; a holds the wrapped declarations.   *)
(***************************************************************************)
Desc(d, t, a, lit) == [d |-> d, t |-> t, a |-> a, lit |-> lit]

TYPE(t) == Desc("type", t, <<>>, VNone)

CLASS(c) == Desc("class", c, <<>>, VNone)

LIT(v) == Desc("lit", "", <<>>, v)

PROPERTY == Desc("property", "", <<>>, VNone)

REQUIRED(tpe) == Desc("REQUIRED", "", <<tpe>>, VNone)

OPTIONAL(tpe, default) == Desc("OPTIONAL", "", <<tpe>>, default)

EITHER(args) == Desc("EITHER", "", args, VNone)

REPEAT(tpe) == Desc("REPEAT", "", <<tpe>>, VNone)

SUBCLASS_OF(t) == Desc("SUBCLASS_OF", t, <<>>, VNone)

ConfigFieldKinds == {"REQUIRED", "OPTIONAL", "EITHER", "REPEAT", "SUBCLASS_OF"}

\* issubclass(type(field_def), ConfigField)
IsConfigField(x) == x.d \in ConfigFieldKinds

\* _is_type(type(x)): x is a plain type or a ConfigObject class
is_type(x) == x.d \in {"type", "class"}

Attr(name, attr) == [name |-> name, attr |-> attr]

(***************************************************************************)
(* The Error Context.                                                      *)
(***************************************************************************)
InitContext(raise_exceptions) ==
    [stack |-> <<>>, errors |-> <<>>, raise_exceptions |-> raise_exceptions]

Frame(obj, name, idx) == [obj |-> obj, name |-> name, idx |-> idx]

NoError == [msg |-> "", trace |-> <<>>]

NoExc == [kind |-> "none", key |-> "", err |-> NoError]

\* a call's outcome: the value returned, the machine state (context and
\* class registry) it leaves, the exception leaving it, and the caller's
\* argument as the call leaves it
Ret(v, st, inp) == [val |-> v, st |-> st, exc |-> NoExc, inp |-> inp]

Throw(e, st, inp) == [val |-> VNone, st |-> st, exc |-> e, inp |-> inp]

Raised(r) == r.exc.kind # "none"

push(st, frame) == [st EXCEPT !.ctx.stack = Append(@, frame)]

pop(st) == [st EXCEPT !.ctx.stack = SubSeq(@, 1, Len(@) - 1)]

\* entering a step_into scope, and its finally clause applied to the
\* outcome of the scope's body
step_into(st, obj, name, idx) == push(st, Frame(obj, name, idx))

\* step_out as it would be without the finally clause: a scope left by
\* an exception keeps its frame
step_out_unless_raised(r) == IF Raised(r) THEN r ELSE [r EXCEPT !.st = pop(@)]

step_out(r) == [r EXCEPT !.st = pop(@)]

\* error as it would be if the mode flag were ignored and every error raised
error_always_raising(st, msg, inp) ==
    LET error_str == [msg |-> msg, trace |-> Reverse(st.ctx.stack)]
    IN  Throw([kind |-> "ConfigException", key |-> "", err |-> error_str],
              [st EXCEPT !.ctx.errors = Append(@, error_str)], inp)

\* ctx.error(msg) followed by the caller's fall-through `return None`
error(st, msg, inp) ==
    LET error_str == [msg |-> msg, trace |-> Reverse(st.ctx.stack)]
        st1 == [st EXCEPT !.ctx.errors = Append(@, error_str)]
    IN  IF st.ctx.raise_exceptions
        THEN Throw([kind |-> "ConfigException", key |-> "", err |-> error_str],
                   st1, inp)
        ELSE Ret(VNone, st1, inp)

n_errors(c) == Len(c.errors)

(***************************************************************************)
(* The class registry: for every record type its bases, its namespace      *)
(* (__dict__, restricted to the declared attributes) and its               *)
(* __config_properties__ (cp), both in insertion order.                    *)
(***************************************************************************)
NoClass == [defined |-> FALSE, bases |-> <<>>, dict |-> <<>>, cp |-> <<>>]

RECURSIVE IsSubclass(_, _, _)
\* issubclass(t1, t2) over the plain types and the registered classes
IsSubclass(t1, t2, C) ==
    \/ t1 = t2
    \/ t2 = "object"
    \/ t1 = "bool" /\ t2 = "int"
    \/ /\ t1 \in DOMAIN C
       /\ \E i \in 1..Len(C[t1].bases) : IsSubclass(C[t1].bases[i], t2, C)

\* isinstance(a, type(b))
IsInstance(a, b, C) == IsSubclass(TypeOf(a), TypeOf(b), C)

NsHas(ns, name) == \E i \in 1..Len(ns) : ns[i].name = name

NsIndex(ns, name) == CHOOSE i \in 1..Len(ns) : ns[i].name = name

\* ns[name] = attr on an insertion-ordered dict
NsSet(ns, name, attr) ==
    IF NsHas(ns, name)
    THEN [ns EXCEPT ![NsIndex(ns, name)] = Attr(name, attr)]
    ELSE Append(ns, Attr(name, attr))

RECURSIVE NsUpdate(_, _)
\* ns.update(more)
NsUpdate(ns, more) ==
    IF more = <<>> THEN ns
    ELSE NsUpdate(NsSet(ns, Head(more).name, Head(more).attr), Tail(more))

RECURSIVE BasesFields(_, _, _)
\* {k: v for b in bases for k, v in b.__dict__.items()}
BasesFields(bases, C, acc) ==
    IF bases = <<>> THEN acc
    ELSE BasesFields(Tail(bases), C,
                     IF Head(bases) \in DOMAIN C
                     THEN NsUpdate(acc, C[Head(bases)].dict) ELSE acc)

\* _MetaConfigObject.__new__: the class record built for a definition
MetaNew(bases, my_fields, C) ==
    LET bases_fields == BasesFields(bases, C, <<>>)
        fields == NsUpdate(bases_fields, my_fields)
        config_properties == SelectSeq(fields, LAMBDA e : IsConfigField(e.attr))
    IN  [defined |-> TRUE, bases |-> bases, dict |-> fields,
         cp |-> config_properties]

(***************************************************************************)
(* Python's == on the values of the model, and ConfigObject.__eq__.        *)
(***************************************************************************)
IsNumber(v) == v.k \in {"int", "float", "bool"}

\* the numeric value in halves, so that 1 == 1.0 == True
Num(v) == IF v.k = "float" THEN v.n ELSE 2 * v.n

\* np.all(a == b) for two arrays of one shape
ArrayAllEqual(a, b) ==
    /\ Len(a.xs) = Len(b.xs)
    /\ \A i \in 1..Len(a.xs) : Num(a.xs[i]) = Num(b.xs[i])

RECURSIVE PyEq(_, _, _), ConfigObject_eq(_, _, _)
PyEq(a, b, C) ==
    IF IsNumber(a) /\ IsNumber(b) THEN Num(a) = Num(b)
    ELSE IF a.k = "object" THEN ConfigObject_eq(a, b, C)
    ELSE IF a.k # b.k THEN FALSE
    ELSE IF a.k = "str" THEN a.s = b.s
    ELSE IF a.k = "list" THEN
        /\ Len(a.xs) = Len(b.xs)
        /\ \A i \in 1..Len(a.xs) : PyEq(a.xs[i], b.xs[i], C)
    ELSE IF a.k = "dict" THEN
        /\ Len(a.xs) = Len(b.xs)
        /\ \A i \in 1..Len(a.xs) :
              /\ HasKey(b, a.xs[i].s)
              /\ PyEq(a.xs[i].xs[1], DictGet(b, a.xs[i].s), C)
    ELSE IF a.k = "ndarray" THEN ArrayAllEqual(a, b)
    ELSE TRUE

\* the comparison of one declared field inside __eq__ (lines 370-381):
\* TRUE when the loop goes on to the next field
eq_property(self_prop, other_prop, C) ==
    /\ IsInstance(self_prop, other_prop, C)
    /\ IsInstance(other_prop, self_prop, C)
    /\ IF self_prop.k = "ndarray"
       THEN ArrayAllEqual(self_prop, self_prop)
       ELSE PyEq(self_prop, other_prop, C)

ConfigObject_eq(self, other, C) ==
    IF TypeOf(self) # TypeOf(other) THEN FALSE
    ELSE LET props == C[self.s].cp
         IN  \A i \in 1..Len(props) :
                eq_property(DictGet(self, props[i].name),
                            DictGet(other, props[i].name), C)

(***************************************************************************)
(* Construction.  st is the machine state a call works on: the Error       *)
(* Context it was given and the class registry.                            *)
(***************************************************************************)
\* what iter(listlike) yields; a dict yields its keys
Iterable(v) == v.k \in {"list", "dict", "ndarray"}

Items(v) ==
    IF v.k = "dict" THEN [i \in 1..Len(v.xs) |-> VStr(v.xs[i].s)] ELSE v.xs

\* the list as seen by its owner once element i was worked on in place
SetItem(listlike, i, v) ==
    IF listlike.k = "list" THEN [listlike EXCEPT !.xs[i] = v] ELSE listlike

\* ConfigField.default and its overrides
default(field_def) ==
    IF field_def.d = "OPTIONAL" THEN field_def.lit
    ELSE IF field_def.d = "REPEAT" THEN VList(<<>>)
    ELSE VNone

\* hasattr(obj, 'construct'): every ConfigField has it; a class or a plain
\* type has it only as a declared attribute of that name
has_construct(obj, C) ==
    \/ IsConfigField(obj)
    \/ obj.d = "class" /\ obj.t \in DOMAIN C /\ NsHas(C[obj.t].dict, "construct")

\* self.types and self.fix_values of EITHER.__init__
types(field_def) == SelectSeq(field_def.a, is_type)

fix_values(field_def) == SelectSeq(field_def.a, LAMBDA x : ~is_type(x))

RECURSIVE CountTrue(_)
CountTrue(bs) ==
    IF bs = <<>> THEN 0
    ELSE (IF Head(bs) THEN 1 ELSE 0) + CountTrue(Tail(bs))

RECURSIVE construct(_, _, _), wrapper_construct(_, _, _),
          EITHER_try(_, _, _, _, _), REPEAT_loop(_, _, _, _, _),
          init_fields(_, _, _, _, _, _), new_with_ctx(_, _, _)

\* _TypeConstructableWrapper.construct
wrapper_construct(obj, value, st) ==
    IF is_type(obj) /\ TypeOf(value) = obj.t
    THEN Ret(value, st, value)
    ELSE IF obj.d = "class" /\ value.k = "dict"
    THEN new_with_ctx(obj.t, value, st)
    ELSE IF has_construct(obj, st.classes)
    THEN construct(obj, value, st)
    ELSE error(st, "Expected type", value)

\* SUBCLASS_OF._construct
SUBCLASS_OF_construct(field_def, value, st) ==
    IF IsSubclass(TypeOf(value), field_def.t, st.classes)
    THEN Ret(value, st, value)
    ELSE error(st, "Expected a subclass", value)

\* one round of the loop of EITHER._construct (lines 194-197), r being
\* the outcome of t.construct(value, ctx): a ConfigException leaves a
\* None slot, any other exception leaves the call
EITHER_slot(tps, i, constructed_values, r) ==
    IF r.exc.kind = "ConfigException"
    THEN EITHER_try(tps, r.inp, i + 1, Append(constructed_values, VNone), r.st)
    ELSE IF Raised(r) THEN r
    ELSE EITHER_try(tps, r.inp, i + 1, Append(constructed_values, r.val), r.st)

\* the loop of EITHER._construct over self.types (lines 192-197)
EITHER_try(tps, value, i, constructed_values, st) ==
    IF i > Len(tps)
    THEN Ret(VList(constructed_values), st, value)
    ELSE EITHER_slot(tps, i, constructed_values,
                     wrapper_construct(tps[i], value, st))

\* the value EITHER._construct returns when exactly one truth is true
\* (lines 221-224)
EITHER_pick(constructed_values, value) ==
    IF constructed_values # <<>> THEN constructed_values[1] ELSE value

\* lines 199-224 of EITHER._construct; tried is the outcome of the loop,
\* value the argument as passed
EITHER_decide(field_def, value, tried) ==
    LET tps == types(field_def)
        fixs == fix_values(field_def)
        value1 == tried.inp
        \* a slot filled by the wrapper's identity path is the argument itself
        constructed_values ==
            [i \in 1..Len(tps) |->
                IF TypeOf(value) = tps[i].t /\ tried.val.xs[i] # VNone
                THEN value1 ELSE tried.val.xs[i]]
        truths ==
            [i \in 1..Len(tps) |-> constructed_values[i] # VNone]
            \o [i \in 1..Len(fixs) |-> PyEq(value1, fixs[i].lit, tried.st.classes)]
    IN  IF Raised(tried) THEN tried
        ELSE IF CountTrue(truths) # 1
        THEN IF CountTrue(truths) > 0
             THEN error(tried.st, "Value satisfies several", value1)
             ELSE error(tried.st, "Value doesn't satisfy any", value1)
        ELSE Ret(EITHER_pick(constructed_values, value1), tried.st, value1)

\* EITHER._construct
EITHER_construct(field_def, value, st) ==
    EITHER_decide(field_def, value,
                  EITHER_try(types(field_def), value, 1, <<>>, st))

\* REPEAT_append as it would be if the elements were collected in reverse
REPEAT_prepend(tpe, listlike, i, constructed_list, r) ==
    IF Raised(r) THEN Throw(r.exc, r.st, SetItem(listlike, i, r.inp))
    ELSE REPEAT_loop(tpe, SetItem(listlike, i, r.inp), i + 1,
                     <<r.val>> \o constructed_list, r.st)

\* one round of the loop of REPEAT._construct once the element's scope
\* is left, r being the outcome of self.tpe.construct(el, ctx)
REPEAT_append(tpe, listlike, i, constructed_list, r) ==
    IF Raised(r) THEN Throw(r.exc, r.st, SetItem(listlike, i, r.inp))
    ELSE REPEAT_loop(tpe, SetItem(listlike, i, r.inp), i + 1,
                     Append(constructed_list, r.val), r.st)

\* the loop of REPEAT._construct (lines 249-254)
REPEAT_loop(tpe, listlike, i, constructed_list, st) ==
    IF i > Len(Items(listlike))
    THEN Ret(VList(constructed_list), st, listlike)
    ELSE REPEAT_append(tpe, listlike, i, constructed_list,
             step_out(wrapper_construct(
                 tpe, Items(listlike)[i],
                 step_into(st, "List", "at element", i - 1))))

\* REPEAT._construct
REPEAT_construct(field_def, listlike, st) ==
    IF listlike = VNone THEN Ret(VNone, st, listlike)
    ELSE IF listlike.k = "str"
    THEN error(st, "Expected a list, but got a str.", listlike)
    ELSE IF ~Iterable(listlike)
    THEN error(st, "Expected a listlike type", listlike)
    ELSE REPEAT_loop(field_def.a[1], listlike, 1, <<>>, st)

\* REQUIRED._construct
REQUIRED_construct(field_def, value, st) ==
    wrapper_construct(field_def.a[1], value, st)

\* OPTIONAL._construct
OPTIONAL_construct(field_def, value, st) ==
    IF value = VNone THEN Ret(default(field_def), st, value)
    ELSE wrapper_construct(field_def.a[1], value, st)

\* ConfigField.construct, dispatching on the descriptor's class
construct(field_def, value, st) ==
    CASE field_def.d = "REQUIRED" -> REQUIRED_construct(field_def, value, st)
      [] field_def.d = "OPTIONAL" -> OPTIONAL_construct(field_def, value, st)
      [] field_def.d = "EITHER" -> EITHER_construct(field_def, value, st)
      [] field_def.d = "REPEAT" -> REPEAT_construct(field_def, value, st)
      [] field_def.d = "SUBCLASS_OF" -> SUBCLASS_OF_construct(field_def, value, st)

\* ConfigObject._add_property: setattr(self.__class__, name, property(..))
add_property(cls, name, st) ==
    [st EXCEPT !.classes[cls].dict = NsSet(@, name, PROPERTY)]

\* lines 328-331 of _set_property, r being the outcome of
\* field_def.construct(value, ctx): None resolves to the default
resolve(field_def, r) ==
    IF ~Raised(r) /\ r.val = VNone
    THEN [r EXCEPT !.val = default(field_def)] ELSE r

\* self.__config_properties__[name]
field_of(cls, name, C) == C[cls].cp[NsIndex(C[cls].cp, name)].attr

\* ConfigObject._set_property: the value stored under '_' + name
set_property(cls, name, value, st) ==
    resolve(field_of(cls, name, st.classes),
            construct(field_of(cls, name, st.classes), value, st))

\* one round of the loop of ConfigObject.__init__ once the field's scope
\* is left, r being the outcome of _set_property; attrs are the instance
\* attributes set so far
init_store(cls, props, kwargs, i, attrs, r) ==
    LET field_name == props[i].name
        kwargs1 == IF HasKey(kwargs, field_name)
                   THEN DictSet(kwargs, field_name, r.inp) ELSE kwargs
    IN  IF Raised(r) THEN Throw(r.exc, r.st, kwargs1)
        ELSE init_fields(cls, props, kwargs1, i + 1,
                         Append(attrs, Entry(field_name, r.val)), r.st)

\* the loop of ConfigObject.__init__ over the declared fields
\* (lines 299-304)
init_fields(cls, props, kwargs, i, attrs, st) ==
    IF i > Len(props)
    THEN Ret(VObj(cls, attrs), st, kwargs)
    ELSE init_store(cls, props, kwargs, i, attrs,
             step_out(set_property(
                 cls, props[i].name, DictGet(kwargs, props[i].name),
                 add_property(cls, props[i].name,
                              step_into(st, "Field", props[i].name, 0)))))

\* ConfigObject._get_ctx: the context passed under "__ctx__", else a new
\* raise-mode one
get_ctx(kwargs, st) ==
    IF HasKey(kwargs, "__ctx__") THEN st
    ELSE [st EXCEPT !.ctx = InitContext(TRUE)]

\* the keys of kwargs that lines 306-311 reject, in kwargs order
unknown_keys(cls, kwargs, C) ==
    SelectSeq([i \in 1..Len(kwargs.xs) |-> kwargs.xs[i].s],
              LAMBDA k : ~NsHas(C[cls].cp, k) /\ k # "__ctx__")

\* check_keys as it would be if unknown keys were silently ignored
check_keys_ignoring(cls, r) == r

\* lines 306-311 of ConfigObject.__init__, r being the outcome of the
\* loop over the declared fields
check_keys(cls, r) ==
    IF Raised(r) THEN r
    ELSE IF unknown_keys(cls, r.inp, r.st.classes) # <<>>
    THEN Throw([kind |-> "ValueError",
                key |-> unknown_keys(cls, r.inp, r.st.classes)[1],
                err |-> NoError], r.st, r.inp)
    ELSE r

\* ConfigObject.__init__(**kwargs)
ConfigObject_init(cls, kwargs, st) ==
    check_keys(cls,
        step_out(init_fields(cls, get_ctx(kwargs, st).classes[cls].cp,
                             kwargs, 1, <<>>,
                             step_into(get_ctx(kwargs, st), "Object", cls, 0))))

\* ConfigObject.new_with_ctx(ctx, obj)
new_with_ctx(cls, obj, st) ==
    ConfigObject_init(cls, DictSet(obj, "__ctx__", VCtx), st)

(***************************************************************************)
(* Serialisation.  An outcome is [val, exc]: exc is "none" or the name of  *)
(* the exception that leaves the call.                                     *)
(***************************************************************************)
Out(v) == [val |-> v, exc |-> "none"]

OutRaise(kind) == [val |-> VNone, exc |-> kind]

\* the types ConfigField.to_builtin passes through unchanged (line 109)
builtin_types == {"int", "float", "str", "dict"}

\* the first exception among the outcomes of a comprehension, else "none"
FirstExc(outs) ==
    IF \E i \in 1..Len(outs) : outs[i].exc # "none"
    THEN outs[CHOOSE i \in 1..Len(outs) :
                 /\ outs[i].exc # "none"
                 /\ \A j \in 1..(i - 1) : outs[j].exc = "none"].exc
    ELSE "none"

\* the outcome of a comprehension over outs: its first exception, else
\* the container built from the values
Collect(outs, container) ==
    IF FirstExc(outs) # "none" THEN OutRaise(FirstExc(outs))
    ELSE Out(container)

RECURSIVE ConfigField_to_builtin(_, _)

\* REPEAT.to_builtin over the outcomes of the items; the resolved value
\* of a REPEAT field is a list
REPEAT_to_builtin(obj, outs) ==
    IF ~Iterable(obj) THEN OutRaise("TypeError")
    ELSE Collect(outs, VList([i \in 1..Len(outs) |-> outs[i].val]))

\* definition.to_builtin(prop_value): only REPEAT overrides the method
to_builtin(field_def, obj, C) ==
    IF field_def.d = "REPEAT"
    THEN REPEAT_to_builtin(obj, [i \in 1..Len(Items(obj)) |->
                                    ConfigField_to_builtin(Items(obj)[i], C)])
    ELSE ConfigField_to_builtin(obj, C)

\* the dict comprehension of ConfigObject._to_builtin (line 343)
to_dict(props, outs) ==
    Collect(outs, VDict([i \in 1..Len(props) |->
                            Entry(props[i].name, outs[i].val)]))

\* ConfigObject._to_builtin
ConfigObject_to_builtin(self, C) ==
    to_dict(C[self.s].cp,
            [i \in 1..Len(C[self.s].cp) |->
                to_builtin(C[self.s].cp[i].attr,
                           DictGet(self, C[self.s].cp[i].name), C)])

\* ConfigField.to_builtin; line 112 fails inside str.format before the
\* ValueError is built, so the exception that leaves is an IndexError
ConfigField_to_builtin(obj, C) ==
    IF obj.k = "object" THEN ConfigObject_to_builtin(obj, C)
    ELSE IF TypeOf(obj) \in builtin_types THEN Out(obj)
    ELSE OutRaise("IndexError")

(***************************************************************************)
(* The record types the program declares, and the inputs it is run on.     *)
(***************************************************************************)
int == TYPE("int")

str == TYPE("str")

Point_fields == <<Attr("x", REQUIRED(int)), Attr("y", REQUIRED(int))>>

Shape_fields == <<Attr("shape", EITHER(<<CLASS("Point"), LIT(VStr("circle"))>>))>>

Flag_fields == <<Attr("b", REQUIRED(TYPE("bool")))>>

Seq_fields == <<Attr("xs", REQUIRED(REPEAT(int)))>>

Path_fields == <<Attr("ps", REPEAT(CLASS("Point")))>>

Nest_fields == <<Attr("p", REQUIRED(CLASS("Point"))),
                 Attr("s", OPTIONAL(str, VStr("d")))>>

Img_fields == <<Attr("a", REQUIRED(TYPE("ndarray")))>>

Strict_fields == <<Attr("k", REQUIRED(SUBCLASS_OF("int"))),
                   Attr("e", REQUIRED(EITHER(<<str, int>>)))>>

Declared == <<<<"Point", Point_fields>>, <<"Shape", Shape_fields>>,
              <<"Flag", Flag_fields>>, <<"Seq", Seq_fields>>,
              <<"Path", Path_fields>>, <<"Nest", Nest_fields>>,
              <<"Img", Img_fields>>, <<"Strict", Strict_fields>>>>

\* names of the record types defined while the program runs
DynNames == <<"A", "B", "C", "D">>

ClassNames ==
    {"ConfigObject"} \cup {Declared[i][1] : i \in 1..Len(Declared)}
                     \cup {DynNames[i] : i \in 1..Len(DynNames)}

\* the registry holding ConfigObject alone (line 293-294)
BaseRegistry ==
    [c \in ClassNames |->
        IF c = "ConfigObject" THEN MetaNew(<<"object">>, <<>>, <<>>) ELSE NoClass]

RECURSIVE Define(_, _)
\* the class statements of the program, executed in order
Define(decls, C) ==
    IF decls = <<>> THEN C
    ELSE Define(Tail(decls),
                [C EXCEPT ![Head(decls)[1]] =
                    MetaNew(<<"ConfigObject">>, Head(decls)[2], C)])

DeclaredRegistry == Define(Declared, BaseRegistry)

RECURSIVE Mappings(_, _)
\* every mapping whose keys, in the order given, are each absent or bound
\* to one of the values offered for it
Mappings(keys, offered) ==
    IF keys = <<>> THEN {<<>>}
    ELSE LET rest == Mappings(Tail(keys), offered)
         IN  rest \cup {<<Entry(Head(keys), v)>> \o r :
                           v \in offered[Head(keys)], r \in rest}

Dicts(keys, offered) == {VDict(m) : m \in Mappings(keys, offered)}

\* every list of at most n items of S
Lists(S, n) == UNION {[1..m -> S] : m \in 0..n}

Atoms == {VNone, VInt(1), VInt(2), VStr("a"), VStr("circle"), VStr(""),
          VBool(TRUE), VFloat(3)}

\* mappings meant for Point: valid, incomplete, ill-typed, with extra keys
PointDicts ==
    Dicts(<<"x", "y", "z", "w">>,
          [k \in {"x", "y", "z", "w"} |->
              CASE k = "x" -> {VInt(1), VStr("a"), VNone}
                [] k = "y" -> {VInt(2), VStr("a")}
                [] OTHER -> {VInt(3)}])

SmallPointDicts ==
    Dicts(<<"x", "y", "z">>,
          [k \in {"x", "y", "z"} |->
              CASE k = "x" -> {VInt(1), VStr("a")}
                [] k = "y" -> {VInt(2)}
                [] OTHER -> {VInt(3)}])

PtOk == VDict(<<Entry("x", VInt(1)), Entry("y", VInt(2))>>)

PtShort == VDict(<<Entry("x", VInt(1))>>)

PtExtra == VDict(<<Entry("x", VInt(1)), Entry("y", VInt(2)), Entry("z", VInt(3))>>)

ListValues ==
    {VList(l) : l \in Lists({VInt(1), VInt(2), VStr("a")}, MaxLen)}
    \cup {VList(l) : l \in Lists({PtOk, PtShort, PtExtra}, MaxLen)}

Arrays == {VArr(l) : l \in Lists({VInt(1), VInt(2)}, MaxLen)}

\* the mappings each declared record type is constructed from
InputsOf(cls) ==
    CASE cls = "Point" -> PointDicts
      [] cls = "Shape" ->
            Dicts(<<"shape", "z">>,
                  [k \in {"shape", "z"} |->
                      IF k = "z" THEN {VInt(3)}
                      ELSE {VStr("circle"), VStr("square"), VInt(1)}
                           \cup SmallPointDicts])
      [] cls = "Flag" ->
            Dicts(<<"b">>, [k \in {"b"} |-> {VBool(TRUE), VBool(FALSE), VInt(1)}])
      [] cls = "Seq" ->
            Dicts(<<"xs">>, [k \in {"xs"} |-> ListValues \cup {VNone, VStr("ab")}])
      [] cls = "Path" ->
            Dicts(<<"ps", "z">>,
                  [k \in {"ps", "z"} |->
                      IF k = "z" THEN {VInt(3)} ELSE ListValues \cup {VInt(1)}])
      [] cls = "Nest" ->
            Dicts(<<"p", "s", "z">>,
                  [k \in {"p", "s", "z"} |->
                      CASE k = "p" -> SmallPointDicts \cup {VInt(1)}
                        [] k = "s" -> {VStr("a"), VInt(1)}
                        [] OTHER -> {VInt(3)}])
      [] cls = "Img" ->
            Dicts(<<"a">>, [k \in {"a"} |-> Arrays \cup {VInt(1)}])
      [] cls = "Strict" ->
            Dicts(<<"k", "e">>,
                  [k \in {"k", "e"} |->
                      IF k = "k" THEN {VInt(1), VBool(TRUE), VStr("a")}
                      ELSE {VInt(1), VStr("a"), VFloat(3)}])
      [] OTHER ->
            Dicts(<<"x", "y">>, [k \in {"x", "y"} |-> {VInt(1), VStr("a")}])

\* the descriptors constructed on their own
FieldDefs ==
    {EITHER(<<int, str>>),
     EITHER(<<CLASS("Point"), LIT(VStr("circle"))>>),
     EITHER(<<LIT(VStr("circle")), LIT(VStr("square"))>>),
     EITHER(<<str, LIT(VStr("circle"))>>),
     EITHER(<<CLASS("Point"), CLASS("Nest")>>),
     REPEAT(int), REPEAT(CLASS("Point")),
     REQUIRED(int), REQUIRED(CLASS("Point")), REQUIRED(REPEAT(int)),
     OPTIONAL(int, VInt(7)), SUBCLASS_OF("int")}

FieldValues == Atoms \cup ListValues \cup SmallPointDicts

(***************************************************************************)
(* The program as a state machine.  A run makes a top-level call (a        *)
(* descriptor's construct, new_with_ctx, or the constructor itself) and    *)
(* then serialises the object it got, or keeps it, constructs a second     *)
(* one and compares the two.                                               *)
(*   classes  the class registry                                           *)
(*   ctx      the Error Context of the last call                           *)
(*   call     the last call: operation, target, argument as passed         *)
(*   ret      what the call returned or raised                             *)
(*   arg      the caller's argument as the call left it                    *)
(*   held     the object kept for a comparison                             *)
(*   out      the outcome of _to_builtin or __eq__                         *)
(***************************************************************************)
NoCall == [op |-> "none", target |-> PROPERTY, value |-> VNone, fields |-> <<>>]

Machine(c, C) == [ctx |-> c, classes |-> C]

Init ==
    /\ classes = DeclaredRegistry
    /\ ctx = InitContext(FALSE)
    /\ pc = "idle"
    /\ call = NoCall
    /\ ret = [val |-> VNone, exc |-> NoExc]
    /\ arg = VNone
    /\ held = VNone
    /\ out = Out(VNone)

\* the caller's view once a top-level call has ended
Finish(op, target, value, r, next_pc) ==
    /\ call' = [op |-> op, target |-> target, value |-> value, fields |-> <<>>]
    /\ classes' = r.st.classes
    /\ ctx' = r.st.ctx
    /\ ret' = [val |-> r.val, exc |-> r.exc]
    /\ arg' = r.inp
    /\ pc' = next_pc
    /\ UNCHANGED <<held, out>>

\* field_def.construct(value, InitContext(raise_exceptions))
Construct(field_def, value, raise_exceptions) ==
    /\ pc = "idle"
    /\ Finish("construct", field_def, value,
              construct(field_def, value,
                        Machine(InitContext(raise_exceptions), classes)),
              "done")

\* cls.new_with_ctx(InitContext(raise_exceptions), obj)
NewWithCtx(cls, obj, raise_exceptions) ==
    /\ pc = "idle"
    /\ Finish("new_with_ctx", CLASS(cls), obj,
              new_with_ctx(cls, obj,
                           Machine(InitContext(raise_exceptions), classes)),
              "done")

\* cls(**kwargs)
New(cls, kwargs) ==
    /\ pc \in {"idle", "holding"}
    /\ Finish("init", CLASS(cls), kwargs,
              ConfigObject_init(cls, kwargs, Machine(ctx, classes)), "done")

\* the program keeps the object it constructed
Keep ==
    /\ pc = "done"
    /\ held = VNone
    /\ ~Raised(ret)
    /\ ret.val.k = "object"
    /\ held' = ret.val
    /\ pc' = "holding"
    /\ UNCHANGED <<classes, ctx, call, ret, arg, out>>

\* obj._to_builtin() on the object just constructed
ToBuiltin ==
    /\ pc = "done"
    /\ ~Raised(ret)
    /\ ret.val.k = "object"
    /\ out' = ConfigObject_to_builtin(ret.val, classes)
    /\ pc' = "serialized"
    /\ UNCHANGED <<classes, ctx, call, ret, arg, held>>

\* held == obj for the object just constructed
Eq ==
    /\ pc = "done"
    /\ held # VNone
    /\ ~Raised(ret)
    /\ ret.val.k = "object"
    /\ out' = Out(VBool(ConfigObject_eq(held, ret.val, classes)))
    /\ pc' = "compared"
    /\ UNCHANGED <<classes, ctx, call, ret, arg, held>>

DeclaredNames == {Declared[i][1] : i \in 1..Len(Declared)}

Next ==
    \/ \E field_def \in FieldDefs, value \in FieldValues, r \in BOOLEAN :
          Construct(field_def, value, r)
    \/ \E cls \in DeclaredNames, r \in BOOLEAN :
          \E obj \in InputsOf(cls) : NewWithCtx(cls, obj, r)
    \/ \E cls \in DeclaredNames : \E kwargs \in InputsOf(cls) : New(cls, kwargs)
    \/ Keep
    \/ ToBuiltin
    \/ Eq

Spec == Init /\ [][Next]_vars

(***************************************************************************)
(* A second program: it defines record types while it runs, each deriving  *)
(* from ConfigObject or from a type defined before, and constructs         *)
(* instances of the types defined so far, in any order.                    *)
(***************************************************************************)
MetaInit ==
    /\ classes = BaseRegistry
    /\ ctx = InitContext(FALSE)
    /\ pc = "meta"
    /\ call = NoCall
    /\ ret = [val |-> VNone, exc |-> NoExc]
    /\ arg = VNone
    /\ held = VNone
    /\ out = Out(VNone)

DynDefined == {i \in 1..Len(DynNames) : classes[DynNames[i]].defined}

\* the field declarations a class statement may carry
FieldSets ==
    {<<>>,
     <<Attr("x", REQUIRED(int))>>,
     <<Attr("y", REQUIRED(int))>>,
     <<Attr("x", REQUIRED(str)), Attr("y", REQUIRED(int))>>}

\* class <name>(<bases>): <my_fields>
DefineClass(name, bases, my_fields) ==
    /\ pc = "meta"
    /\ Cardinality(DynDefined) < MaxDefs
    /\ name = DynNames[Cardinality(DynDefined) + 1]
    /\ \A i \in 1..Len(bases) : classes[bases[i]].defined
    /\ classes' = [classes EXCEPT ![name] = MetaNew(bases, my_fields, classes)]
    /\ call' = [op |-> "define", target |-> CLASS(name), value |-> VNone,
                fields |-> my_fields]
    /\ UNCHANGED <<ctx, pc, ret, arg, held, out>>

\* cls(**kwargs), the instance dropped afterwards
Instantiate(cls, kwargs) ==
    /\ pc = "meta"
    /\ classes[cls].defined
    /\ Finish("init", CLASS(cls), kwargs,
              ConfigObject_init(cls, kwargs, Machine(ctx, classes)), "meta")

MetaNames == {"ConfigObject"} \cup {DynNames[i] : i \in 1..Len(DynNames)}

MetaNext ==
    \/ \E name \in MetaNames, base \in MetaNames, my_fields \in FieldSets :
          DefineClass(name, <<base>>, my_fields)
    \/ \E cls \in MetaNames : \E kwargs \in InputsOf(cls) : Instantiate(cls, kwargs)

SpecMeta == MetaInit /\ [][MetaNext]_vars

(***************************************************************************)
(* A third program (src/bernet/dataset.py): it holds an Epoche over a data *)
(* array and asks it for the index pairs of its minibatches.  The epoch    *)
(* is kept in held (only the number of rows of its data matters), the      *)
(* batch size in arg, the pairs the iterator yields in out.                *)
(***************************************************************************)
\* Epoche(data) for a data array of n rows
Epoche(n) == Val("Epoche", n, "", <<>>)

\* Epoche.n_examples(): data.shape[0]
n_examples(self) == self.n

VTuple(xs) == Val("tuple", 0, "", xs)

\* Python's range(start, stop, step) for a positive step, as the sequence
\* of the numbers it yields
range(start, stop, step) ==
    IF stop <= start THEN <<>>
    ELSE [i \in 1..((stop - start + step - 1) \div step) |->
             start + (i - 1) * step]

\* Python's zip(a, b): pairs up to the end of the shorter sequence
zip(a, b) ==
    [i \in 1..(IF Len(a) <= Len(b) THEN Len(a) ELSE Len(b)) |->
        VTuple(<<VInt(a[i]), VInt(b[i])>>)]

\* minibatch_idx as it would be if the ranges ran one batch further
minibatch_idx_overshooting(self, batch_size) ==
    zip(range(0, n_examples(self), batch_size),
        range(batch_size, n_examples(self) + batch_size, batch_size))

\* Epoche.minibatch_idx(batch_size)
minibatch_idx(self, batch_size) ==
    zip(range(0, n_examples(self) - batch_size, batch_size),
        range(batch_size, n_examples(self), batch_size))

BatchInit ==
    /\ classes = BaseRegistry
    /\ ctx = InitContext(FALSE)
    /\ pc = "epoch"
    /\ call = NoCall
    /\ ret = [val |-> VNone, exc |-> NoExc]
    /\ arg = VNone
    /\ held \in {Epoche(n) : n \in 0..MaxExamples}
    /\ out = Out(VNone)

\* list(epoch.minibatch_idx(batch_size))
MinibatchIdx(batch_size) ==
    /\ pc = "epoch"
    /\ arg' = VInt(batch_size)
    /\ out' = Out(VList(minibatch_idx(held, batch_size)))
    /\ pc' = "batched"
    /\ UNCHANGED <<classes, ctx, call, ret, held>>

BatchNext == \E batch_size \in 1..MaxBatch : MinibatchIdx(batch_size)

SpecBatch == BatchInit /\ [][BatchNext]_vars


(***************************************************************************)
(* Properties.                                                             *)
(***************************************************************************)
Succeeded(r) == ~Raised(r) /\ r.val # VNone

\* the outcome of constructing value against one type alternative alone
Alone(alt, value) ==
    wrapper_construct(alt, value, Machine(InitContext(TRUE), classes))

\* an alternative of an Either accepts the value: a type when constructing
\* the value against it alone succeeds, a literal when the value equals it
Accepts(alt, value) ==
    IF is_type(alt) THEN Succeeded(Alone(alt, value))
    ELSE PyEq(value, alt.lit, classes)

Accepting(field_def, value) ==
    {i \in 1..Len(field_def.a) : Accepts(field_def.a[i], value)}

EitherCalled == pc = "done" /\ call.op = "construct" /\ call.target.d = "EITHER"

\* C1: when exactly one alternative of the Either accepts the value,
\* EITHER.construct returns that alternative's result: the value the
\* matching type constructs, or the original value for a matching literal.
C1_OneMatchReturned ==
    EitherCalled =>
        \A i \in Accepting(call.target, call.value) :
            Accepting(call.target, call.value) = {i} =>
                /\ ~Raised(ret)
                /\ ret.val = IF is_type(call.target.a[i])
                             THEN Alone(call.target.a[i], call.value).val
                             ELSE call.value

\* C2: EITHER.construct signals an error exactly when the number of
\* accepting alternatives is not one: then it yields no value and records
\* an error (raising ConfigException in raise mode); with exactly one
\* accepting alternative it records nothing and raises nothing.
C2_ErrorIffNotOne ==
    EitherCalled =>
        IF Cardinality(Accepting(call.target, call.value)) = 1
        THEN n_errors(ctx) = 0 /\ ~Raised(ret)
        ELSE /\ ret.val = VNone
             /\ n_errors(ctx) > 0
             /\ ctx.raise_exceptions => ret.exc.kind = "ConfigException"


ObjCalled == pc = "done" /\ call.op \in {"new_with_ctx", "init"}

PrimitiveTypes == {"int", "float", "str", "bool"}

RECURSIVE RoundTripField(_), RoundTripClass(_)
\* a declaration built from Required, Optional and Repeated over
\* primitives and nested record types
RoundTripField(d) ==
    CASE d.d \in {"REQUIRED", "OPTIONAL", "REPEAT"} -> RoundTripField(d.a[1])
      [] d.d = "type" -> d.t \in PrimitiveTypes
      [] d.d = "class" -> RoundTripClass(d.t)
      [] OTHER -> FALSE

RoundTripClass(cls) ==
    \A i \in 1..Len(classes[cls].cp) : RoundTripField(classes[cls].cp[i].attr)

RECURSIVE ValidValue(_, _), ValidMapping(_, _)
\* the value is what the declaration asks for
ValidValue(d, v) ==
    CASE d.d \in {"REQUIRED", "OPTIONAL"} -> ValidValue(d.a[1], v)
      [] d.d = "REPEAT" ->
            v.k = "list" /\ \A i \in 1..Len(v.xs) : ValidValue(d.a[1], v.xs[i])
      [] d.d = "type" -> TypeOf(v) = d.t
      [] d.d = "class" -> v.k = "dict" /\ ValidMapping(d.t, v)
      [] OTHER -> FALSE

\* the mapping binds exactly the declared fields, each to a valid value
ValidMapping(cls, m) ==
    /\ \A i \in 1..Len(m.xs) : NsHas(classes[cls].cp, m.xs[i].s)
    /\ \A i \in 1..Len(classes[cls].cp) :
          /\ HasKey(m, classes[cls].cp[i].name)
          /\ ValidValue(classes[cls].cp[i].attr, DictGet(m, classes[cls].cp[i].name))

\* C3: round trip: constructing an object from a valid mapping for a
\* schema of Required, Optional and Repeated fields over primitives,
\* nested record types and lists succeeds, and serialising the object
\* gives, without error, a mapping equal to the one it was built from.
C3_RoundTrip ==
    (/\ pc \in {"done", "serialized"}
     /\ held = VNone
     /\ call.op \in {"new_with_ctx", "init"}
     /\ RoundTripClass(call.target.t)
     /\ ValidMapping(call.target.t, call.value))
    => /\ ~Raised(ret)
       /\ ret.val.k = "object"
       /\ n_errors(ctx) = 0
       /\ pc = "serialized" =>
             out.exc = "none" /\ PyEq(out.val, call.value, classes)

SeqToSet(q) == {q[i] : i \in 1..Len(q)}

RECURSIVE Undeclared(_, _, _)
\* the keys no schema declares, in the mapping itself and in the nested
\* mappings given to its nested-record fields; with either, also in the
\* mappings tried against the record alternatives of an Either
Undeclared(d, v, either) ==
    CASE d.d = "class" /\ v.k = "dict" ->
            SeqToSet(unknown_keys(d.t, v, classes))
            \cup UNION {Undeclared(classes[d.t].cp[i].attr,
                                   DictGet(v, classes[d.t].cp[i].name), either) :
                           i \in 1..Len(classes[d.t].cp)}
      [] d.d \in {"REQUIRED", "OPTIONAL"} -> Undeclared(d.a[1], v, either)
      [] d.d = "REPEAT" /\ v.k = "list" ->
            UNION {Undeclared(d.a[1], v.xs[i], either) : i \in 1..Len(v.xs)}
      [] d.d = "EITHER" /\ either ->
            UNION {Undeclared(d.a[i], v, either) : i \in 1..Len(d.a)}
      [] OTHER -> {}

RepeatCalled == pc = "done" /\ call.op = "construct" /\ call.target.d = "REPEAT"

\* every item of the list is valid for the element type
ItemsValid(tpe, v) ==
    v.k = "list" /\ \A i \in 1..Len(v.xs) : Succeeded(Alone(tpe, v.xs[i]))

\* C5: REPEAT.construct on a sequence of n values valid for T returns a
\* list of n elements, the i-th being the construction of the i-th input,
\* and records no error; on a string it records the shape-mismatch error
\* alone and returns no list.
C5_RepeatPreservesOrder ==
    RepeatCalled =>
        /\ ItemsValid(call.target.a[1], call.value) =>
              /\ ~Raised(ret)
              /\ ret.val.k = "list"
              /\ Len(ret.val.xs) = Len(call.value.xs)
              /\ \A i \in 1..Len(call.value.xs) :
                    ret.val.xs[i] = Alone(call.target.a[1], call.value.xs[i]).val
              /\ n_errors(ctx) = 0
        /\ call.value.k = "str" =>
              /\ ret.val = VNone
              /\ ctx.errors = <<[msg |-> "Expected a list, but got a str.",
                                 trace |-> <<>>]>>
              /\ Raised(ret) <=> ctx.raise_exceptions

C5_Witness ==
    /\ RepeatCalled
    /\ call.value = VList(<<VInt(1), VInt(2)>>)
    /\ ret.val = VList(<<VInt(1), VInt(2)>>)

\* the Required fields of the record type the mapping leaves out or
\* binds to None
RequiredMissing(cls, m) ==
    {i \in 1..Len(classes[cls].cp) :
        /\ classes[cls].cp[i].attr.d = "REQUIRED"
        /\ DictGet(m, classes[cls].cp[i].name) = VNone}

\* an error of the context was recorded inside the scope of the field
ErrorFor(name) ==
    \E j \in 1..n_errors(ctx) :
        \E k \in 1..Len(ctx.errors[j].trace) :
            ctx.errors[j].trace[k] = Frame("Field", name, 0)

\* C6: a Required field has no default: when the mapping omits it (or
\* gives None), construction raises ConfigException in raise mode and, if
\* it returns an object, has recorded an error for that field.
C6_RequiredAbsenceIsError ==
    ObjCalled =>
        \A i \in RequiredMissing(call.target.t, call.value) :
            /\ ctx.raise_exceptions => Raised(ret)
            /\ ~Raised(ret) => ErrorFor(classes[call.target.t].cp[i].name)

\* every field of the record type is REQUIRED(<plain type>)
PlainRequired(cls) ==
    \A i \in 1..Len(classes[cls].cp) :
        /\ classes[cls].cp[i].attr.d = "REQUIRED"
        /\ classes[cls].cp[i].attr.a[1].d = "type"

\* the error each missing or ill-typed field of a PlainRequired type
\* leaves, in field order
ExpectedErrors(cls, m) ==
    LET props == classes[cls].cp
        invalid == SelectSeq([i \in 1..Len(props) |-> props[i]],
                       LAMBDA f : TypeOf(DictGet(m, f.name)) # f.attr.a[1].t)
    IN  [j \in 1..Len(invalid) |->
            [msg |-> "Expected type",
             trace |-> <<Frame("Field", invalid[j].name, 0),
                         Frame("Object", cls, 0)>>]]

\* C7: in accumulate mode construction never raises ConfigException; from
\* a mapping with no unknown keys it returns an object holding a value
\* for every declared field; and when the fields are Required plain types
\* the context holds exactly one error per missing or ill-typed field,
\* each traced to its field.
C7_AccumulateReportsAll ==
    (pc = "done" /\ call.op = "new_with_ctx" /\ ~ctx.raise_exceptions) =>
        /\ ret.exc.kind # "ConfigException"
        /\ Undeclared(call.target, call.value, TRUE) = {} =>
              /\ ~Raised(ret)
              /\ ret.val.k = "object"
              /\ [i \in 1..Len(ret.val.xs) |-> ret.val.xs[i].s]
                    = [i \in 1..Len(classes[call.target.t].cp) |->
                          classes[call.target.t].cp[i].name]
              /\ PlainRequired(call.target.t) =>
                    ctx.errors = ExpectedErrors(call.target.t, call.value)

C7_Witness ==
    /\ pc = "done"
    /\ call.op = "new_with_ctx"
    /\ ~ctx.raise_exceptions
    /\ call.target = CLASS("Point")
    /\ call.value = VDict(<<Entry("x", VStr("a"))>>)
    /\ n_errors(ctx) = 2
    /\ ~Raised(ret)

\* C8: in raise mode the first error recorded aborts the call with a
\* ConfigException carrying the recorded string: a call that returns
\* normally recorded nothing and the context never holds two errors.
C8_RaiseOnFirstError ==
    (pc = "done" /\ ctx.raise_exceptions) =>
        /\ n_errors(ctx) <= 1
        /\ ~Raised(ret) => n_errors(ctx) = 0
        /\ n_errors(ctx) = 1 =>
              ret.exc.kind = "ConfigException" /\ ret.exc.err = ctx.errors[1]

\* C9: __eq__ is structural: two instances are equal exactly when they
\* are of one record type and every declared field holds the same value,
\* arrays being the same when they agree element by element.
C9_EqIsStructural ==
    pc = "compared" => out.val = VBool(held = ret.val)

\* the declared field map as a set of (name, descriptor) pairs
AsMap(ns) == {<<ns[i].name, ns[i].attr>> : i \in 1..Len(ns)}

\* C10: the declared field map of a newly defined record type is its
\* parent's overlaid with its own declarations, whether or not instances
\* of the parent were constructed before.
C10_ChildInheritsFields ==
    call.op = "define" =>
        AsMap(classes[call.target.t].cp)
            = AsMap(NsUpdate(classes[classes[call.target.t].bases[1]].cp,
                             call.fields))

\* C11: every pair (start, end) that minibatch_idx(n) yields for an epoch
\* of N examples and a batch size n >= 1 has start and end multiples of
\* n, end = start + n and end <= N: no minibatch reaches past the last
\* example.
C11_MinibatchesInRange ==
    pc = "batched" =>
        \A i \in 1..Len(out.val.xs) :
            LET start == out.val.xs[i].xs[1].n
                end == out.val.xs[i].xs[2].n
            IN  /\ start % arg.n = 0
                /\ end % arg.n = 0
                /\ end = start + arg.n
                /\ end <= n_examples(held)

C11_Witness ==
    /\ pc = "batched"
    /\ held = Epoche(7)
    /\ arg = VInt(3)
    /\ out.val = VList(<<VTuple(<<VInt(0), VInt(3)>>),
                         VTuple(<<VInt(3), VInt(6)>>)>>)

RECURSIVE OpenScopes(_, _, _)
\* chain, outermost first, is a chain of scopes that constructing v
\* against d has open at a point where an error can be recorded: an
\* Object scope holds the Field scope of one of its declared fields, a
\* Field scope what its descriptor opens, a Repeated descriptor the List
\* scope of one of its elements, an Either what one of its type
\* alternatives opens
OpenScopes(d, v, chain) ==
    CASE d.d = "class" /\ v.k = "dict" ->
            /\ Len(chain) >= 2
            /\ chain[1] = Frame("Object", d.t, 0)
            /\ \E i \in 1..Len(classes[d.t].cp) :
                  /\ chain[2] = Frame("Field", classes[d.t].cp[i].name, 0)
                  /\ OpenScopes(classes[d.t].cp[i].attr,
                                DictGet(v, classes[d.t].cp[i].name),
                                SubSeq(chain, 3, Len(chain)))
      [] d.d \in {"REQUIRED", "OPTIONAL"} -> OpenScopes(d.a[1], v, chain)
      [] d.d = "EITHER" ->
            \/ chain = <<>>
            \/ \E i \in 1..Len(d.a) :
                  is_type(d.a[i]) /\ OpenScopes(d.a[i], v, chain)
      [] d.d = "REPEAT" ->
            \/ chain = <<>>
            \/ /\ Iterable(v)
               /\ chain # <<>>
               /\ \E i \in 1..Len(Items(v)) :
                     /\ chain[1] = Frame("List", "at element", i - 1)
                     /\ OpenScopes(d.a[1], Items(v)[i], Tail(chain))
      [] OTHER -> chain = <<>>

\* C12: the frame stack is balanced: every error was recorded with the
\* stack holding exactly the chain of Object / Field / List scopes open
\* at that point, outermost first, and after any top-level call, in
\* either mode, returning or raising (ConfigException from any depth, or
\* the unknown-key error), the stack of the call's context is empty
\* again.
C12_FrameStackBalanced ==
    call.op \in {"construct", "new_with_ctx", "init"} =>
        /\ ctx.stack = <<>>
        /\ \A j \in 1..n_errors(ctx) :
              OpenScopes(call.target, call.value, Reverse(ctx.errors[j].trace))

C12_Witness ==
    /\ pc = "done"
    /\ call.op = "new_with_ctx"
    /\ call.target = CLASS("Path")
    /\ ctx.raise_exceptions
    /\ ret.exc.kind = "ConfigException"
    /\ n_errors(ctx) = 1
    /\ ctx.errors[1].trace = <<Frame("Field", "y", 0),
                               Frame("Object", "Point", 0),
                               Frame("List", "at element", 1),
                               Frame("Field", "ps", 0),
                               Frame("Object", "Path", 0)>>
    /\ ctx.stack = <<>>

\* C13: construction treats its input as read-only: after a call,
\* successful or not, the mapping the caller supplied, and every mapping
\* and list nested in it, has exactly the keys and values it had before
\* the call; no "__ctx__" key is left in it.
C13_InputUnmodified ==
    call.op \in {"construct", "new_with_ctx", "init"} => arg = call.value

====
